---- MODULE Spec2Model ----
(***************************************************************************)
(* MessageStream (src/src/stream.rs): the resumable decoder of frames      *)
(*   [4-byte little-endian length L][L payload bytes][padding]             *)
(* read from an AsyncBufRead reader.  One action is one call of poll_next; *)
(* the reader's answers to the reads made inside that call are the inputs  *)
(* of the action.                                                          *)
(***************************************************************************)
EXTENDS Integers, Sequences, FiniteSets, TLC

VARIABLES
    sector_size,     \* MessageStream.sector_size
    read_bytes,      \* MessageStream.read_bytes
    message_length,  \* MessageStream.message_length (u32)
    state,           \* MessageStream.state: Ready | Pending(reading, read, buf)
    reader,          \* MessageStream.reader: cursor, end-of-data, what it answered
    stream,          \* the bytes behind the reader
    msgs,            \* the payloads the stream was encoded from
    result,          \* what the last poll_next returned
    yielded,         \* the payloads of the messages returned so far
    frame_start,     \* history: cursor at which the current frame's prefix read began
    frame_len        \* history: length decoded for the current frame (NoLen: not yet)

vars == <<sector_size, read_bytes, message_length, state, reader, stream, msgs,
          result, yielded, frame_start, frame_len>>

----------------------------------------------------------------------------
(* Bounds of the model *)

MaxMsgs == 2
MaxLen == 2
MaxNotReady == 3
MaxErrors == 1

(* Program constants *)

PrefixLen == 4

SectorSizes == {3, 8}
ErrorKinds == {"Other", "UnexpectedEof"}
ReaderKinds == {"ready", "slow", "faulty"}

----------------------------------------------------------------------------
(* u32, u64 and usize values.  A number is kept as two digits of base 2^16, *)
(* [h |-> high, l |-> low] with 0 <= l < 2^16, so that lengths up to        *)
(* 2^32 - 1 and the sums made of them can be written; a u32 is a number     *)
(* with h < 2^16.                                                           *)

Base == 256 * 256

Wide(n) == [h |-> n \div Base, l |-> n % Base]

ToInt(w) == w.h * Base + w.l

WAdd(a, b) == [h |-> a.h + b.h + ((a.l + b.l) \div Base), l |-> (a.l + b.l) % Base]

WAddInt(a, n) == WAdd(a, Wide(n))

\* a - b for a >= b
WSub(a, b) ==
    IF a.l >= b.l THEN [h |-> a.h - b.h, l |-> a.l - b.l]
    ELSE [h |-> a.h - b.h - 1, l |-> a.l + Base - b.l]

WGe(a, b) == a.h > b.h \/ (a.h = b.h /\ a.l >= b.l)

WLt(a, b) == ~WGe(a, b)

\* a / d and a * d for a small d
WDivInt(a, d) == [h |-> a.h \div d, l |-> ((a.h % d) * Base + a.l) \div d]

WMulInt(a, d) == [h |-> a.h * d + ((a.l * d) \div Base), l |-> (a.l * d) % Base]

WModInt(a, d) == (((a.h % d) * (Base % d)) + a.l) % d

NoLen == [h |-> 0 - 1, l |-> 0]

----------------------------------------------------------------------------
(* Vec<u8> and slices.  A buffer is created zeroed (vec![0u8; len]) and is  *)
(* only ever written from its start, so it is kept as its length and the   *)
(* written bytes; every byte after `data` is the 0 it was created with.    *)

Min(a, b) == IF a < b THEN a ELSE b
Max(a, b) == IF a < b THEN b ELSE a

NewBuf(len) == [len |-> len, data |-> <<>>]

ByteAt(buf, i) == IF i <= Len(buf.data) THEN buf.data[i] ELSE 0

Bytes(buf) == [i \in 1..buf.len |-> ByteAt(buf, i)]

\* &mut buf[read..]
SliceFrom(buf, read) ==
    [len  |-> buf.len - read,
     data |-> IF read < Len(buf.data)
              THEN SubSeq(buf.data, read + 1, Len(buf.data)) ELSE <<>>]

\* buf after the slice &mut buf[read..] was written through
Unslice(buf, read, slice) ==
    [len  |-> buf.len,
     data |-> IF slice.data = <<>> THEN buf.data
              ELSE [i \in 1..(read + Len(slice.data)) |->
                        IF i <= read THEN ByteAt(buf, i) ELSE slice.data[i - read]]]

\* the reader copies `bytes` into buf[read_offset..]
WriteAt(buf, read_offset, bytes) ==
    [len  |-> buf.len,
     data |-> [i \in 1..Max(Len(buf.data), read_offset + Len(bytes)) |->
                  IF i > read_offset /\ i <= read_offset + Len(bytes)
                  THEN bytes[i - read_offset] ELSE ByteAt(buf, i)]]

----------------------------------------------------------------------------
(* State *)

Ready == [tag |-> "Ready", reading |-> "None", read |-> 0, buf |-> NewBuf(0)]

Pending(reading, read, buf) ==
    [tag |-> "Pending", reading |-> reading, read |-> read, buf |-> buf]

\* Poll<Option<Result<Message, io::Error>>>, and the abort of the program
PollPending == [kind |-> "Pending", bytes |-> <<>>, err |-> "none"]
ReadyNone == [kind |-> "None", bytes |-> <<>>, err |-> "none"]
ReadySomeErr(k) == [kind |-> "Err", bytes |-> <<>>, err |-> k]
ReadySomeOk(m) == [kind |-> "Msg", bytes |-> m, err |-> "none"]
Panicked == [kind |-> "Panic", bytes |-> <<>>, err |-> "none"]
NotPolled == [kind |-> "Init", bytes |-> <<>>, err |-> "none"]

----------------------------------------------------------------------------
(* The frame format *)

LeBytes(n) ==
    <<n % 256, (n \div 256) % 256, (n \div 65536) % 256, (n \div 16777216) % 256>>

PaddingLen(L, ss) == (ss - ((PrefixLen + L) % ss)) % ss

EncodeFrame(payload, ss) ==
    LeBytes(Len(payload)) \o payload \o [i \in 1..PaddingLen(Len(payload), ss) |-> 0]

RECURSIVE Encode(_, _)
Encode(ms, ss) ==
    IF ms = <<>> THEN <<>>
    ELSE EncodeFrame(Head(ms), ss) \o Encode(Tail(ms), ss)

\* the payload of the i-th message: L distinct non-zero bytes
Payload(i, L) == [j \in 1..L |-> 16 * i + j]

----------------------------------------------------------------------------
(* The reader behind the stream.  `this.reader.read(&mut buf[read_offset..])` *)
(* answers with 1..want bytes taken at the cursor, with zero bytes (end of  *)
(* data, which then stays), with not-ready, or with an error.  A read       *)
(* delivers one byte or all it can; read_exact ends in the same ways for    *)
(* every other chunking.  rd.kind is the kind of reader: "ready" always     *)
(* delivers and reports end of data after the last byte; "slow" may also    *)
(* answer not-ready; "faulty" may also fail, and end anywhere (a truncated  *)
(* stream).  rd.not_ready counts the not-ready answers inside the current   *)
(* frame, rd.errors the errors so far (a reader that failed is not polled   *)
(* into not-ready again); rd.zero and rd.err tell what the reader answered  *)
(* inside the current poll.                                                 *)

Avail(rd) == IF WLt(rd.pos, Wide(Len(stream))) THEN Len(stream) - ToInt(rd.pos) ELSE 0

ChunkSizes(want, avail) == {n \in {1, Min(want, avail)} : 1 <= n /\ n <= Min(want, avail)}

ReaderRead(rd, want) ==
    {[tag |-> "Data", n |-> n, kind |-> "none",
      bytes |-> SubSeq(stream, ToInt(rd.pos) + 1, ToInt(rd.pos) + n),
      rd |-> [rd EXCEPT !.pos = WAddInt(@, n)]] :
        n \in IF rd.ended THEN {} ELSE ChunkSizes(want, Avail(rd))}
    \cup
    {[tag |-> "Data", n |-> 0, kind |-> "none", bytes |-> <<>>,
      rd |-> IF want = 0 THEN rd ELSE [rd EXCEPT !.ended = TRUE, !.zero = TRUE]] :
        x \in IF want = 0 \/ rd.ended \/ rd.kind = "faulty" \/ Avail(rd) = 0
              THEN {0} ELSE {}}
    \cup
    {[tag |-> "NotReady", n |-> 0, kind |-> "none", bytes |-> <<>>,
      rd |-> [rd EXCEPT !.not_ready = @ + 1]] :
        x \in IF /\ rd.kind # "ready" /\ ~rd.ended /\ rd.errors = 0
                 /\ rd.not_ready < MaxNotReady
              THEN {0} ELSE {}}
    \cup
    {[tag |-> "Err", n |-> 0, kind |-> k, bytes |-> <<>>,
      rd |-> [rd EXCEPT !.errors = @ + 1, !.err = k]] :
        k \in IF rd.kind = "faulty" /\ ~rd.ended /\ rd.errors < MaxErrors
              THEN ErrorKinds ELSE {}}

\* this.reader.consume_unpin(diff as _)
consume_unpin(rd, diff) == [rd EXCEPT !.pos = WAdd(@, diff)]

----------------------------------------------------------------------------
(* The read_exact closure of poll_next.  Its value is the set of ways it    *)
(* can end, one for every way the reader can answer its reads.             *)

\* seeded fault: the loop runs once more, with nothing left to read
LoopGuardInclusive(read_offset, len) == read_offset <= len

\* while read_offset < buf.len()
LoopGuard(read_offset, len) == read_offset < len

\* seeded fault: the offset reached is not saved
SavePendingRestart(reading, read_offset, buf) == Pending(reading, 0, buf)

\* seeded fault: the suspension is not recorded
SavePendingDropped(reading, read_offset, buf) == Ready

\* seeded fault: every suspension is recorded as one of the length prefix
SavePendingLength(reading, read_offset, buf) == Pending("Length", read_offset, buf)

\* *this.state = State::Pending(reading, read_offset, new_buf)
SavePending(reading, read_offset, buf) == Pending(reading, read_offset, buf)

\* seeded fault: n == 0 makes an error of another kind
EofKindOther == "Other"

\* the kind of the error made for n == 0
EofKind == "UnexpectedEof"

RECURSIVE read_exact(_, _, _, _)
read_exact(reading, buf, read_offset, rd) ==
    IF ~LoopGuard(read_offset, buf.len)
    THEN {[res |-> "Ok", kind |-> "none", buf |-> buf, saved |-> Ready, rd |-> rd]}
    ELSE UNION {
        CASE a.tag = "Err" ->
               {[res |-> "Err", kind |-> a.kind, buf |-> buf, saved |-> Ready,
                 rd |-> a.rd]}
          [] a.tag = "NotReady" ->
               {[res |-> "Pending", kind |-> "none", buf |-> buf,
                 saved |-> SavePending(reading, read_offset, buf), rd |-> a.rd]}
          [] a.tag = "Data" /\ a.n = 0 ->
               {[res |-> "Err", kind |-> EofKind, buf |-> buf, saved |-> Ready,
                 rd |-> a.rd]}
          [] OTHER ->
               read_exact(reading, WriteAt(buf, read_offset, a.bytes),
                          read_offset + a.n, a.rd)
        : a \in ReaderRead(rd, buf.len - read_offset)}

----------------------------------------------------------------------------
(* Decoding and padding *)

\* seeded fault: the prefix is decoded big-endian
from_be_bytes(b) == [h |-> b[2] + 256 * b[1], l |-> b[4] + 256 * b[3]]

\* u32::from_le_bytes(buf[0..4])
from_le_bytes(b) == [h |-> b[3] + 256 * b[4], l |-> b[1] + 256 * b[2]]

\* Message::from_bytes(&payload): the message is its payload bytes
from_bytes(b) == b

\* dma_buf::val_align_up(value, align)
val_align_up(value, align) == WMulInt(WDivInt(WAddInt(value, align - 1), align), align)

\* a + b in u32: the sum, or on overflow the abort of a build with overflow
\* checks and the wrapped sum of a build without
AddU32(a, b) ==
    LET sum == WAddInt(a, b)
    IN  IF sum.h < Base THEN {[panic |-> FALSE, val |-> sum]}
        ELSE {[panic |-> TRUE, val |-> Wide(0)],
              [panic |-> FALSE, val |-> [h |-> sum.h % Base, l |-> sum.l]]}

\* seeded fault: the whole aligned size is skipped
PaddingDiffWhole(adjusted_size, total_batch_length) == adjusted_size

\* let diff = adjusted_size - total_batch_length
PaddingDiff(adjusted_size, total_batch_length) == WSub(adjusted_size, total_batch_length)

\* the body of the `if *this.read_bytes >= ...` blocks: skip the padding, reset
SkipPadding(ml, rb, rd) ==
    {IF t.panic
     THEN [panic |-> TRUE, message_length |-> ml, read_bytes |-> rb, rd |-> rd]
     ELSE [panic |-> FALSE, message_length |-> Wide(0), read_bytes |-> rb,
           rd |-> consume_unpin(rd, PaddingDiff(val_align_up(t.val, sector_size), t.val))]
     : t \in AddU32(ml, PrefixLen)}

NoSkip(ml, rb, rd) ==
    [panic |-> FALSE, message_length |-> ml, read_bytes |-> rb, rd |-> rd]

\* resumed from the length prefix: read_bytes += length + 4; the guard compares
\* with message_length
FinishResumedLength(length, ml, rb, rd) ==
    LET rb2 == WAdd(rb, WAddInt(length, PrefixLen))
    IN  IF WGe(rb2, ml) THEN SkipPadding(ml, rb2, rd) ELSE {NoSkip(ml, rb2, rd)}

\* seeded fault: only the payload is counted in read_bytes
FinishResumedMessagePayloadOnly(length, ml, rb, rd) == SkipPadding(ml, WAdd(rb, ml), rd)

\* resumed from the payload: read_bytes += message_length + 4; the guard compares
\* with message_length + 4 (u32)
FinishResumedMessage(length, ml, rb, rd) ==
    LET rb2 == WAdd(rb, WAddInt(ml, PrefixLen))
    IN  UNION {IF g.panic
               THEN {[panic |-> TRUE, message_length |-> ml, read_bytes |-> rb2,
                      rd |-> rd]}
               ELSE IF WGe(rb2, g.val) THEN SkipPadding(ml, rb2, rd)
               ELSE {NoSkip(ml, rb2, rd)}
               : g \in AddU32(ml, PrefixLen)}

\* seeded fault: the guard of the fresh path is false
FinishFreshNoSkip(length, ml, rb, rd) ==
    {NoSkip(ml, WAdd(rb, WAddInt(length, PrefixLen)), rd)}

\* the fresh path: read_bytes += length + 4; the guard compares with
\* message_length + 4 (u32)
FinishFresh(length, ml, rb, rd) ==
    LET rb2 == WAdd(rb, WAddInt(length, PrefixLen))
    IN  UNION {IF g.panic
               THEN {[panic |-> TRUE, message_length |-> ml, read_bytes |-> rb2,
                      rd |-> rd]}
               ELSE IF WGe(rb2, g.val) THEN SkipPadding(ml, rb2, rd)
               ELSE {NoSkip(ml, rb2, rd)}
               : g \in AddU32(ml, PrefixLen)}

FinishFrame(path, length, ml, rb, rd) ==
    CASE path = "ResumedLength" -> FinishResumedLength(length, ml, rb, rd)
      [] path = "ResumedMessage" -> FinishResumedMessage(length, ml, rb, rd)
      [] OTHER -> FinishFresh(length, ml, rb, rd)

----------------------------------------------------------------------------
(* poll_next.  Each path gives the set of ways the call can end:            *)
(* the new fields of the stream, the reader afterwards, the value returned. *)

Out(st, ml, rb, rd, res, fl) ==
    [state |-> st, message_length |-> ml, read_bytes |-> rb, rd |-> rd,
     result |-> res, frame_len |-> fl]

\* seeded fault: the fresh path surfaces every error of read_exact
FreshReadErrorSurfaced(kind) == ReadySomeErr(kind)

\* if e.kind() == UnexpectedEof { return Poll::Ready(None) } return Some(Err(e))
\* after a read_exact of the fresh path
FreshReadError(kind) ==
    IF kind = "UnexpectedEof" THEN ReadyNone ELSE ReadySomeErr(kind)

\* seeded fault: a resumed poll answers an error with not-ready
ResumedReadErrorRetry(kind) == PollPending

\* the same after a read_exact of a resumed path
ResumedReadError(kind) ==
    IF kind = "UnexpectedEof" THEN ReadyNone ELSE ReadySomeErr(kind)

ReadError(path, kind) ==
    IF path = "Fresh" THEN FreshReadError(kind) ELSE ResumedReadError(kind)

\* from `*this.message_length = length` to the return of the message
PayloadPhase(path, length, rb, rd) ==
    UNION {
        CASE b.res = "Pending" ->
               {Out(b.saved, length, rb, b.rd, PollPending, length)}
          [] b.res = "Err" ->
               {Out(Ready, length, rb, b.rd, ReadError(path, b.kind), length)}
          [] OTHER ->
               {IF f.panic
                THEN Out(Ready, f.message_length, f.read_bytes, f.rd, Panicked, length)
                ELSE Out(Ready, f.message_length, f.read_bytes, f.rd,
                         ReadySomeOk(from_bytes(Bytes(b.buf))), length)
                : f \in FinishFrame(path, length, length, rb, b.rd)}
        : b \in read_exact("Message", NewBuf(ToInt(length)), 0, rd)}

\* State::Ready: let mut buf = [0u8; 4]; ...
FreshPath(ml, rb, rd) ==
    UNION {
        CASE a.res = "Pending" -> {Out(a.saved, ml, rb, a.rd, PollPending, NoLen)}
          [] a.res = "Err" ->
               {Out(Ready, ml, rb, a.rd, FreshReadError(a.kind), NoLen)}
          [] OTHER -> PayloadPhase("Fresh", from_le_bytes(Bytes(a.buf)), rb, a.rd)
        : a \in read_exact("Length", NewBuf(PrefixLen), 0, rd)}

\* State::Pending(Reading::Length, read, buf)
ResumedLength(read, buf, ml, rb, rd) ==
    UNION {
        CASE a.res = "Pending" -> {Out(a.saved, ml, rb, a.rd, PollPending, NoLen)}
          [] a.res = "Err" ->
               {Out(Ready, ml, rb, a.rd, ResumedReadError(a.kind), NoLen)}
          [] OTHER ->
               LET full == Unslice(buf, read, a.buf)
               IN  IF full.len < PrefixLen
                   THEN {Out(Ready, ml, rb, a.rd, Panicked, NoLen)}
                   ELSE PayloadPhase("ResumedLength",
                                     from_le_bytes(SubSeq(Bytes(full), 1, PrefixLen)),
                                     rb, a.rd)
        : a \in read_exact("Length", SliceFrom(buf, read), 0, rd)}

\* State::Pending(Reading::Message, read, buf)
ResumedMessage(read, buf, ml, rb, rd, fl) ==
    UNION {
        CASE a.res = "Pending" -> {Out(a.saved, ml, rb, a.rd, PollPending, fl)}
          [] a.res = "Err" ->
               {Out(Ready, ml, rb, a.rd, ResumedReadError(a.kind), fl)}
          [] OTHER ->
               {IF f.panic
                THEN Out(Ready, f.message_length, f.read_bytes, f.rd, Panicked, fl)
                ELSE Out(Ready, f.message_length, f.read_bytes, f.rd,
                         ReadySomeOk(from_bytes(Bytes(Unslice(buf, read, a.buf)))), fl)
                : f \in FinishFrame("ResumedMessage", ml, ml, rb, a.rd)}
        : a \in read_exact("Message", SliceFrom(buf, read), 0, rd)}

\* the reader when a poll begins: nothing answered yet in this poll
Polled(rd) == [rd EXCEPT !.zero = FALSE, !.err = "none"]

\* ... and when the poll begins a frame
PolledFresh(rd) == [Polled(rd) EXCEPT !.not_ready = 0]

\* the poll ends as o
Return(o) ==
    /\ state' = o.state
    /\ message_length' = o.message_length
    /\ read_bytes' = o.read_bytes
    /\ reader' = o.rd
    /\ result' = o.result
    /\ frame_len' = o.frame_len
    /\ yielded' = IF o.result.kind = "Msg" THEN Append(yielded, o.result.bytes)
                  ELSE yielded
    /\ UNCHANGED <<sector_size, stream, msgs>>

PollReady ==
    /\ result.kind # "Panic"
    /\ state.tag = "Ready"
    /\ \E o \in FreshPath(message_length, read_bytes, PolledFresh(reader)) :
          /\ Return(o)
          /\ frame_start' = reader.pos

PollPendingLength ==
    /\ result.kind # "Panic"
    /\ state.tag = "Pending" /\ state.reading = "Length"
    /\ \E o \in ResumedLength(state.read, state.buf, message_length, read_bytes,
                              Polled(reader)) :
          /\ Return(o)
          /\ UNCHANGED frame_start

PollPendingMessage ==
    /\ result.kind # "Panic"
    /\ state.tag = "Pending" /\ state.reading = "Message"
    /\ \E o \in ResumedMessage(state.read, state.buf, message_length, read_bytes,
                               Polled(reader), frame_len) :
          /\ Return(o)
          /\ UNCHANGED frame_start

\* MessageStream::new(reader, sector_size) over the encoding of some messages
NewReader(kind) ==
    [kind |-> kind, pos |-> Wide(0), ended |-> FALSE, not_ready |-> 0, errors |-> 0,
     zero |-> FALSE, err |-> "none"]

Init ==
    /\ sector_size \in SectorSizes
    /\ \E n \in 0..MaxMsgs : \E lens \in [1..n -> 0..MaxLen] :
          msgs = [i \in 1..n |-> Payload(i, lens[i])]
    /\ stream = Encode(msgs, sector_size)
    /\ read_bytes = Wide(0)
    /\ message_length = Wide(0)
    /\ state = Ready
    /\ reader \in {NewReader(k) : k \in ReaderKinds}
    /\ result = NotPolled
    /\ yielded = <<>>
    /\ frame_start = Wide(0)
    /\ frame_len = NoLen

Next == PollReady \/ PollPendingLength \/ PollPendingMessage

Spec == Init /\ [][Next]_vars

----------------------------------------------------------------------------
(* The completion of one frame for every width of length: the stream has   *)
(* decoded the length L and read the L payload bytes, and runs the code     *)
(* from `*this.read_bytes += ...` to the return of the message on each of   *)
(* its three paths.  The payload bytes themselves are not represented.      *)

ArithSectorSizes == {1, 3, 6, 8, 512, 4096}

ArithLengths ==
    {Wide(n) : n \in 0..3} \cup {[h |-> Base - 1, l |-> Base - k] : k \in 1..6}

ArithInit ==
    /\ sector_size \in ArithSectorSizes
    /\ message_length \in ArithLengths
    /\ frame_len = message_length
    /\ frame_start = Wide(0)
    /\ reader = [NewReader("ready") EXCEPT !.pos = WAddInt(message_length, PrefixLen)]
    /\ read_bytes = Wide(0)
    /\ state = Ready
    /\ stream = <<>>
    /\ msgs = <<>>
    /\ result = NotPolled
    /\ yielded = <<>>

ArithReturn(f) ==
    /\ message_length' = f.message_length
    /\ read_bytes' = f.read_bytes
    /\ reader' = f.rd
    /\ result' = IF f.panic THEN Panicked ELSE ReadySomeOk(<<>>)
    /\ UNCHANGED <<sector_size, state, stream, msgs, yielded, frame_start, frame_len>>

ArithFresh ==
    /\ result.kind = "Init"
    /\ \E f \in FinishFresh(message_length, message_length, read_bytes, reader) :
          ArithReturn(f)

ArithResumedLength ==
    /\ result.kind = "Init"
    /\ \E f \in FinishResumedLength(message_length, message_length, read_bytes, reader) :
          ArithReturn(f)

ArithResumedMessage ==
    /\ result.kind = "Init"
    /\ \E f \in FinishResumedMessage(message_length, message_length, read_bytes, reader) :
          ArithReturn(f)

ArithNext == ArithFresh \/ ArithResumedLength \/ ArithResumedMessage

ArithSpec == ArithInit /\ [][ArithNext]_vars

----------------------------------------------------------------------------
(* Properties *)

\* the smallest multiple of ss that is >= x
RoundUpTo(x, ss) == WAddInt(x, (ss - WModInt(x, ss)) % ss)

\* the offsets at which the frames of the encoded stream begin and end
Boundaries == {Len(Encode(SubSeq(msgs, 1, k), sector_size)) : k \in 0..Len(msgs)}

\* the current frame as it lies in the stream: its length prefix and payload
PrefixInStream ==
    from_le_bytes(SubSeq(stream, ToInt(frame_start) + 1, ToInt(frame_start) + PrefixLen))

PayloadInStream ==
    SubSeq(stream, ToInt(frame_start) + PrefixLen + 1,
           ToInt(frame_start) + PrefixLen + ToInt(PrefixInStream))

\* what poll_next returns for the current frame when the reader delivers it
\* without any not-ready
Uninterrupted ==
    {o.result : o \in FreshPath(Wide(0), Wide(0),
                                [NewReader("ready") EXCEPT !.pos = frame_start])}

\* C1: round trip. With a reader that is always ready, whatever the size of
\* its reads, the polls yield the encoded payloads one per frame, in order,
\* and then end-of-sequence.
C1_RoundTrip ==
    reader.kind = "ready" =>
        /\ result.kind \in {"Init", "Msg", "None"}
        /\ Len(yielded) <= Len(msgs)
        /\ yielded = SubSeq(msgs, 1, Len(yielded))
        /\ (result.kind = "None" => yielded = msgs)

C1_Witness ==
    /\ reader.kind = "ready"
    /\ result.kind = "None"
    /\ Len(msgs) = 2 /\ Len(msgs[1]) = 2 /\ Len(msgs[2]) = 1
    /\ yielded = msgs

\* C2: resumption equivalence. A message returned for a frame inside which
\* the reader answered not-ready exactly once is the item returned when the
\* frame is delivered without any not-ready.
C2_ResumptionEquivalence ==
    (result.kind = "Msg" /\ reader.not_ready = 1) => Uninterrupted = {result}

C2_Witness ==
    /\ result.kind = "Msg"
    /\ reader.not_ready = 1
    /\ Len(result.bytes) = 2
    /\ Len(yielded) = 2

\* C3: no byte already received is lost, however many not-ready answers fall
\* inside a frame: a returned message is made of all the payload bytes of its
\* frame, and its length is the one the four prefix bytes encode.
C3_NoBytesLost ==
    result.kind = "Msg" =>
        /\ frame_len = PrefixInStream
        /\ result.bytes = PayloadInStream

\* C4: alignment. When a message is returned the cursor stands
\* round_up(4 + L, sector_size) bytes after the first byte of its frame.
C4_Alignment ==
    result.kind = "Msg" =>
        reader.pos = WAdd(frame_start, RoundUpTo(WAddInt(frame_len, PrefixLen), sector_size))

\* C5: order and single consumption. The cursor never moves back, and when
\* the reader does not fail the k-th message returned is made of bytes of the
\* k-th frame only, each taken once and in the order of the stream.
C5_OrderedOnce ==
    /\ [](reader.kind # "faulty" =>
            /\ Len(yielded) <= Len(msgs)
            /\ \A k \in 1..Len(yielded) :
                  /\ \A j \in 1..Len(yielded[k]) :
                        \E i \in 1..Len(msgs[k]) : yielded[k][j] = msgs[k][i]
                  /\ \A j \in 1..(Len(yielded[k]) - 1) :
                        yielded[k][j] < yielded[k][j + 1])
    /\ [][WGe(reader'.pos, reader.pos)]_vars

C5_Witness ==
    /\ reader.kind = "slow"
    /\ Len(yielded) = 2
    /\ Len(yielded[1]) = 2 /\ Len(yielded[2]) = 2
    /\ reader.not_ready >= 2

\* C6: a zero-byte answer to a read that still expects bytes ends the
\* sequence cleanly, wherever in the frame and on whichever path it falls.
C6_CleanEndOfStream == reader.zero => result.kind = "None"

C6_Witness ==
    /\ reader.zero
    /\ result.kind = "None"
    /\ reader.not_ready >= 1
    /\ reader.pos = WAddInt(frame_start, 2)

\* C7: every error of the reader's read is returned as that error item.
C7_ErrorsVerbatim == reader.err # "none" => result = ReadySomeErr(reader.err)

\* C8: zero-length payload. A frame whose prefix decodes to 0 yields, in the
\* poll that decodes it, one message with an empty payload: no payload read
\* can suspend, fail or end it, and the cursor ends on the next sector
\* boundary after the prefix.
C8_ZeroLength ==
    frame_len = Wide(0) =>
        /\ result = ReadySomeOk(<<>>)
        /\ state = Ready
        /\ yielded # <<>> /\ yielded[Len(yielded)] = <<>>
        /\ reader.pos = WAdd(frame_start, RoundUpTo(Wide(PrefixLen), sector_size))

C8_Witness ==
    /\ frame_len = Wide(0)
    /\ result.kind = "Msg"
    /\ sector_size = 8
    /\ reader.not_ready >= 1
    /\ Len(yielded) = 2

\* C9: liveness. When the reader fails nowhere and delivers the whole stream,
\* with finitely many not-ready answers, and the stream is polled again and
\* again, every message is yielded and end-of-sequence is returned: until
\* then the stream can always be polled once more (it has not aborted).
Finished == result.kind = "None" /\ Len(yielded) = Len(msgs)

C9_Liveness == reader.kind # "faulty" => (Finished \/ ENABLED Next)

\* C10: once end-of-sequence was returned for a zero-byte read, every later
\* poll returns end-of-sequence.
C10_TerminalEnd ==
    [][(result.kind = "None" /\ reader.ended) => result'.kind = "None"]_vars

C10_Witness ==
    /\ result.kind = "None"
    /\ reader.ended
    /\ reader.errors = 0
    /\ frame_start = reader.pos
    /\ ToInt(reader.pos) \notin Boundaries

\* C11: the saved buffer is the whole buffer of its phase: 4 bytes for the
\* length prefix, message_length bytes for the payload, also after a second
\* suspension inside the phase.
C11_SavedWholeBuffer ==
    state.tag = "Pending" =>
        /\ (state.reading = "Length" => state.buf.len = PrefixLen)
        /\ (state.reading = "Message" => Wide(state.buf.len) = message_length)

\* C12: a recorded suspension always has fewer valid bytes than its buffer
\* holds.
C12_ValidPrefixShorter == state.tag = "Pending" => state.read < state.buf.len

C12_Witness ==
    /\ state.tag = "Pending" /\ state.reading = "Message"
    /\ state.read = 1 /\ state.buf.len = 2
    /\ reader.not_ready >= 2

\* C13: when a poll has returned, a suspension is recorded if and only if the
\* poll returned not-ready; after a message, an error item or end-of-sequence
\* the state is Ready and holds no buffer.
C13_PendingIffNotReady ==
    /\ (state.tag = "Pending") <=> (result.kind = "Pending")
    /\ state.tag # "Pending" => state = Ready

C13_Witness ==
    /\ result.kind = "Err"
    /\ state = Ready
    /\ reader.not_ready >= 1
    /\ WGe(reader.pos, WAddInt(frame_start, PrefixLen + 1))

\* C14: every poll that returns a message has skipped the padding of its
\* frame and reset message_length, on each of the three paths: the guard on
\* read_bytes is never false.
C14_SkipAndReset ==
    result.kind = "Msg" =>
        /\ message_length = Wide(0)
        /\ WGe(reader.pos, WAdd(frame_start, WAddInt(frame_len, PrefixLen)))
        /\ WModInt(WSub(reader.pos, frame_start), sector_size) = 0

C14_Witness ==
    /\ result.kind = "Msg"
    /\ message_length = Wide(0)
    /\ sector_size = 8
    /\ Len(yielded) = 2
    /\ frame_len = Wide(1)
    /\ reader.not_ready >= 2
    /\ read_bytes = Wide(2 * PrefixLen + Len(msgs[1]) + 1)

\* C15: the phases follow the state machine. A poll resumed in the payload
\* phase never ends in the length phase; the payload phase is entered only
\* with the four prefix bytes of the frame read and message_length set from
\* them; a message is returned only with the payload read to its end.
InLength(st) == st.tag = "Pending" /\ st.reading = "Length"

InMessage(st) == st.tag = "Pending" /\ st.reading = "Message"

C15_PhaseTransitions ==
    [][/\ InLength(state) => (InLength(state') \/ InMessage(state') \/ state' = Ready)
       /\ InMessage(state) => (InMessage(state') \/ state' = Ready)
       /\ InMessage(state') =>
             /\ message_length' = PrefixInStream'
             /\ frame_len' = message_length'
             /\ WGe(reader'.pos, WAddInt(frame_start', PrefixLen))
             /\ WLt(reader'.pos, WAdd(frame_start', WAddInt(frame_len', PrefixLen)))
       /\ InLength(state') => WLt(reader'.pos, WAddInt(frame_start', PrefixLen))
       /\ result'.kind = "Msg" =>
             WGe(reader'.pos, WAdd(frame_start', WAddInt(frame_len', PrefixLen)))
      ]_vars

C15_Witness ==
    /\ InMessage(state)
    /\ state.read = 1
    /\ reader.not_ready = 3
    /\ reader.pos = WAddInt(frame_start, PrefixLen + 1)
    /\ frame_start # Wide(0)

\* C16: the padding arithmetic is exact for every 32-bit length: the frame is
\* finished without abort and the bytes skipped are
\* round_up(4 + L, sector_size) - (4 + L).
C16_ExactPadding ==
    result.kind # "Init" =>
        /\ result.kind # "Panic"
        /\ WSub(reader.pos, WAddInt(frame_len, PrefixLen))
             = WSub(RoundUpTo(WAddInt(frame_len, PrefixLen), sector_size),
                    WAddInt(frame_len, PrefixLen))

\* C17: read_bytes starts at 0 and every poll adds 4 + L to it when it returns
\* a message of a frame of length L, on whichever path, and leaves it alone
\* otherwise: it is the sum of 4 + L over the messages returned.
C17_ReadBytesSum ==
    [][read_bytes' = IF result'.kind = "Msg"
                     THEN WAdd(read_bytes, WAddInt(frame_len', PrefixLen))
                     ELSE read_bytes]_vars

C17_Witness ==
    /\ Len(yielded) = 2
    /\ result.kind = "Msg"
    /\ reader.kind = "slow"
    /\ reader.not_ready = 1
    /\ state = Ready
    /\ Len(msgs[1]) = 2 /\ Len(msgs[2]) = 2
    /\ read_bytes = Wide(12)
    /\ sector_size = 3

\* C18: a poll in which the reader fails or ends returns an error item or
\* end-of-sequence and leaves the state Ready, whatever part of a frame was
\* read (message_length keeps the length decoded, if any); the next poll
\* reads a fresh length prefix at the cursor, from the bytes that lie there.
C18_ErrorDiscardsFrame ==
    /\ []((reader.zero \/ reader.err # "none") =>
            /\ result.kind \in {"Err", "None"}
            /\ state = Ready
            /\ (frame_len # NoLen => message_length = frame_len))
    /\ [][(result.kind \in {"Err", "None"} /\ result'.kind # "Panic") =>
            /\ frame_start' = reader.pos
            /\ (frame_len' # NoLen => frame_len' = PrefixInStream')
            /\ (InLength(state') =>
                  WSub(reader'.pos, reader.pos) = Wide(state'.read))]_vars

C18_Witness ==
    /\ result.kind = "Msg"
    /\ reader.errors >= 1
    /\ frame_start # Wide(0)
    /\ ToInt(frame_start) \notin Boundaries

\* the bytes the reader delivered between two cursors
Delivered(from, to) == SubSeq(stream, ToInt(from) + 1, ToInt(to))

\* the last k valid bytes of a saved buffer
LastValid(st, k) == SubSeq(st.buf.data, st.read - k + 1, st.read)

\* C19 as stated: a poll that returns not-ready leaves sector_size and
\* read_bytes alone, sets message_length only if it completed the length
\* prefix, and every byte it took from the reader is a valid byte of the
\* saved buffer.
C19_NotReadyFrame ==
    [][result'.kind = "Pending" =>
          LET k == ToInt(WSub(reader'.pos, reader.pos))
          IN  /\ sector_size' = sector_size
              /\ read_bytes' = read_bytes
              /\ (message_length' # message_length =>
                    (~InMessage(state) /\ InMessage(state')))
              /\ k <= state'.read
              /\ Delivered(reader.pos, reader'.pos) = LastValid(state', k)
      ]_vars

\* C19 amended: ... every byte it took from the reader is one of the prefix
\* bytes it decoded into message_length or a valid byte of the saved buffer.
C19_NotReadyFrameAmended ==
    [][result'.kind = "Pending" =>
          LET k == ToInt(WSub(reader'.pos, reader.pos))
              completed == ~InMessage(state) /\ InMessage(state')
              p == IF completed
                   THEN ToInt(WSub(WAddInt(frame_start', PrefixLen), reader.pos))
                   ELSE 0
          IN  /\ sector_size' = sector_size
              /\ read_bytes' = read_bytes
              /\ (message_length' # message_length => completed)
              /\ (completed => message_length' = PrefixInStream')
              /\ p <= k
              /\ k - p <= state'.read
              /\ Delivered(WAddInt(reader.pos, p), reader'.pos) = LastValid(state', k - p)
      ]_vars

C19_Witness ==
    /\ result.kind = "Pending"
    /\ InMessage(state)
    /\ state.read = 1
    /\ reader.not_ready = 2
    /\ reader.pos = WAddInt(frame_start, PrefixLen + 1)
    /\ frame_start # Wide(0)
    /\ message_length = Wide(2)
    /\ read_bytes = Wide(PrefixLen)

====
